---- MODULE Spec2Model ----
(***************************************************************************)
(* Model of the Task-Prioritization-App (src/main.py): the schedule-report  *)
(* parser (the effective definition of parse_schedule_report at lines      *)
(* 855-912), the session handlers built around it (lines 619-663 and       *)
(* 731-762, 914-926, 932-1005), the Canvas feed collector (lines 87-100)   *)
(* and register_user (lines 590-596).  The file defines several functions  *)
(* more than once; the last definition is the one that runs.               *)
(*                                                                         *)
(* A Python str is a sequence of one-character strings, so that strip,     *)
(* startswith, split and strptime are computed character by character.     *)
(***************************************************************************)
EXTENDS Integers, Sequences, FiniteSets, TLC

(***************************************************************************)
(* Bounds of the model.                                                    *)
(***************************************************************************)
\* longest report of free-form lines
MaxLines == 4
\* most event blocks after the week header of a block-structured report
MaxBlocks == 4
\* calls of parse_schedule_report on the same report
MaxCalls == 2
\* readings of the wall clock within one day are 0..MaxClock
MaxClock == 1

(***************************************************************************)
(* Python str primitives.                                                  *)
(***************************************************************************)
\* the characters str.strip() removes
Whitespace == {" ", "\t", "\n", "\r", "\f"}

Min(S) == CHOOSE x \in S : \A y \in S : x <= y

Max(S) == CHOOSE x \in S : \A y \in S : x >= y

\* s.strip(chars): drop leading and trailing characters that are in chars
StripChars(s, chars) ==
    LET keep == {i \in 1..Len(s) : s[i] \notin chars}
    IN  IF keep = {} THEN <<>> ELSE SubSeq(s, Min(keep), Max(keep))

\* s.strip()
Strip(s) == StripChars(s, Whitespace)

\* s.startswith(prefix)
StartsWith(s, prefix) ==
    /\ Len(s) >= Len(prefix)
    /\ SubSeq(s, 1, Len(prefix)) = prefix

\* s.find(sep) + 1, that is, the 1-based position of the first occurrence
\* of sep in s, or 0 when there is none
Find(s, sep) ==
    LET hits == {i \in 1..(Len(s) - Len(sep) + 1) :
                    SubSeq(s, i, i + Len(sep) - 1) = sep}
    IN  IF hits = {} THEN 0 ELSE Min(hits)

RECURSIVE Split(_, _)
\* s.split(sep), for a non-empty sep
Split(s, sep) ==
    LET i == Find(s, sep)
    IN  IF i = 0
        THEN <<s>>
        ELSE <<SubSeq(s, 1, i - 1)>> \o Split(SubSeq(s, i + Len(sep), Len(s)), sep)

RECURSIVE Join(_, _)
\* sep.join(parts)
Join(parts, sep) ==
    IF Len(parts) = 0 THEN <<>>
    ELSE IF Len(parts) = 1 THEN parts[1]
    ELSE parts[1] \o sep \o Join(Tail(parts), sep)

\* the outcome of an expression that may raise: a value or an exception
Ok(v) == [exc |-> "none", val |-> v]

Raise(e) == [exc |-> e, val |-> <<>>]

Raised(r) == r.exc # "none"

\* Python list indexing seq[k] with 0 <= k; out of range raises IndexError
Index(seq, k) ==
    IF k >= 0 /\ k < Len(seq) THEN Ok(seq[k + 1]) ELSE Raise("IndexError")

\* Python None, and the truth value of a str-or-None
None == <<"None">>

Truthy(v) == v # None /\ v # <<>>

(***************************************************************************)
(* datetime.strptime(s, "%B %d, %Y").                                      *)
(* The format compiles to the case-insensitive regular expression          *)
(*   (january|...|december)\s+(3[0-1]|[1-2]\d|0[1-9]|[1-9]| [1-9]),\s+\d{4}*)
(* which must match the whole string; the fields must then form a valid    *)
(* date.  Any failure raises ValueError.                                   *)
(***************************************************************************)
ValueError == Raise("ValueError")

UpperCase == <<"A","B","C","D","E","F","G","H","I","J","K","L","M","N","O","P","Q","R","S","T","U","V","W","X","Y","Z">>

LowerCase == <<"a","b","c","d","e","f","g","h","i","j","k","l","m","n","o","p","q","r","s","t","u","v","w","x","y","z">>

Digits == <<"0","1","2","3","4","5","6","7","8","9">>

MonthNames ==
   << <<"j","a","n","u","a","r","y">>,
      <<"f","e","b","r","u","a","r","y">>,
      <<"m","a","r","c","h">>,
      <<"a","p","r","i","l">>,
      <<"m","a","y">>,
      <<"j","u","n","e">>,
      <<"j","u","l","y">>,
      <<"a","u","g","u","s","t">>,
      <<"s","e","p","t","e","m","b","e","r">>,
      <<"o","c","t","o","b","e","r">>,
      <<"n","o","v","e","m","b","e","r">>,
      <<"d","e","c","e","m","b","e","r">> >>

LowerChar(c) ==
    IF \E k \in 1..Len(UpperCase) : UpperCase[k] = c
    THEN LowerCase[CHOOSE k \in 1..Len(UpperCase) : UpperCase[k] = c]
    ELSE c

Lower(s) == [i \in 1..Len(s) |-> LowerChar(s[i])]

IsDigit(c) == \E k \in 1..Len(Digits) : Digits[k] = c

DigitVal(c) == (CHOOSE k \in 1..Len(Digits) : Digits[k] = c) - 1

\* length of the longest prefix of s made of characters of chars
Span(s, chars) ==
    LET stop == {i \in 1..Len(s) : s[i] \notin chars}
    IN  IF stop = {} THEN Len(s) ELSE Min(stop) - 1

Drop(s, n) == SubSeq(s, n + 1, Len(s))

IsLeap(y) == (y % 4 = 0 /\ y % 100 # 0) \/ y % 400 = 0

DaysInMonth(y, m) ==
    IF m = 2 THEN (IF IsLeap(y) THEN 29 ELSE 28)
    ELSE IF m \in {4, 6, 9, 11} THEN 30 ELSE 31

\* the datetime value: a calendar date and a time of day (0 is midnight)
DateTime(y, m, d, t) == [year |-> y, month |-> m, day |-> d, time |-> t]

Strptime(s) ==
    LET low   == Lower(s)
        ms    == {m \in 1..12 : StartsWith(low, MonthNames[m])}
        m     == CHOOSE k \in ms : TRUE
        r1    == Drop(s, Len(MonthNames[m]))
        w1    == Span(r1, Whitespace)
        r2    == Drop(r1, w1)
        \* the day field ends right before the comma
        nd    == Span(r2, {Digits[k] : k \in 1..Len(Digits)})
        dtxt  == SubSeq(r2, 1, nd)
        d     == IF nd = 1 THEN DigitVal(dtxt[1])
                 ELSE 10 * DigitVal(dtxt[1]) + DigitVal(dtxt[2])
        r3    == Drop(r2, nd)
        r4    == Drop(r3, 1)
        w2    == Span(r4, Whitespace)
        r5    == Drop(r4, w2)
        y     == 1000 * DigitVal(r5[1]) + 100 * DigitVal(r5[2])
                 + 10 * DigitVal(r5[3]) + DigitVal(r5[4])
    IN  IF ms = {} THEN ValueError
        ELSE IF w1 < 1 THEN ValueError
        ELSE IF nd \notin {1, 2} THEN ValueError
        ELSE IF d < 1 \/ d > 31 THEN ValueError
        ELSE IF Len(r3) < 1 \/ r3[1] # "," THEN ValueError
        ELSE IF w2 < 1 THEN ValueError
        ELSE IF Len(r5) # 4 THEN ValueError
        ELSE IF \E i \in 1..4 : ~IsDigit(r5[i]) THEN ValueError
        ELSE IF y < 1 THEN ValueError
        ELSE IF d > DaysInMonth(y, m) THEN ValueError
        ELSE Ok(DateTime(y, m, d, 0))

(***************************************************************************)
(* Literals of parse_schedule_report.                                      *)
(***************************************************************************)
\* "\n"
Newline == <<"\n">>

\* "Week"
WeekToken == <<"W","e","e","k">>

\* '**'
BoldMarker == <<"*","*">>

\* '- **Description:**'
DescriptionLabel == <<"-"," ","*","*","D","e","s","c","r","i","p","t","i","o","n",":","*","*">>

\* '- **Due Date:**'
DueDateLabel == <<"-"," ","*","*","D","u","e"," ","D","a","t","e",":","*","*">>

\* "No description provided."
NoDescription == <<"N","o"," ","d","e","s","c","r","i","p","t","i","o","n"," ","p","r","o","v","i","d","e","d",".">>

(***************************************************************************)
(* The pieces of one iteration of the scan loop.                           *)
(***************************************************************************)
\* line.startswith("Week")
IsWeekLine(line) == StartsWith(line, WeekToken)

\* a variant that takes the marker anywhere in the line
IsTitleLine_Anywhere(line) == Find(line, BoldMarker) # 0

\* line.startswith('**')
IsTitleLine(line) == StartsWith(line, BoldMarker)

\* a variant that does not look at current_week
WeekKnown_Ignored(week) == TRUE

\* ... and current_week
WeekKnown(week) == Truthy(week)

\* title = line.strip().strip('**'): the argument of strip is a set of
\* characters, here the single character '*'
Title(line) == StripChars(Strip(line), {BoldMarker[i] : i \in 1..Len(BoldMarker)})

\* a variant whose bound is off by one
HasNextTwo_OffByOne(i, ls) == i + 1 < Len(ls)

\* if idx + 2 < len(lines)
HasNextTwo(i, ls) == i + 2 < Len(ls)

\* the description of the event, from the stripped line at title+1
Description(desc_line) ==
    IF StartsWith(desc_line, DescriptionLabel)
    THEN LET part == Index(Split(desc_line, DescriptionLabel), 1)
         IN  IF Raised(part) THEN part ELSE Ok(Strip(part.val))
    ELSE Ok(NoDescription)

\* a variant without the try/except around strptime
DueDate_Uncaught(due_line, now) ==
    IF StartsWith(due_line, DueDateLabel)
    THEN LET part == Index(Split(due_line, DueDateLabel), 1)
         IN  IF Raised(part) THEN part ELSE Strptime(Strip(part.val))
    ELSE Ok(now)

\* the due date of the event, from the stripped line at title+2; now is the
\* value datetime.today() returns if it is called
DueDate(due_line, now) ==
    IF StartsWith(due_line, DueDateLabel)
    THEN LET part == Index(Split(due_line, DueDateLabel), 1)
         IN  IF Raised(part) THEN part
             ELSE LET due_date == Strptime(Strip(part.val))
                  IN  IF due_date = ValueError THEN Ok(now) ELSE due_date
    ELSE Ok(now)

\* Event() followed by the assignments of name, begin and description
Event(title, due_date, description) ==
    [name |-> title, begin |-> due_date, description |-> description,
     all_day |-> FALSE]

\* a variant that keeps the time of day of the begin
make_all_day_KeepsTime(event) == [event EXCEPT !.all_day = TRUE]

\* event.make_all_day(): the begin is floored to its day and the event
\* carries no time of day
make_all_day(event) ==
    [event EXCEPT !.begin = DateTime(event.begin.year, event.begin.month,
                                     event.begin.day, 0),
                  !.all_day = TRUE]

\* a variant that resumes at the line after the title
AfterEvent_Rescan(i) == i + 1

\* idx += 3 after an event
AfterEvent(i) == i + 3

\* idx += 1 otherwise
AfterLine(i) == i + 1

(***************************************************************************)
(* The reports the model feeds to the parser.                              *)
(***************************************************************************)
\* "Week 1:"
WeekLine == <<"W","e","e","k"," ","1",":">>

\* "**T**"
TitleLine == <<"*","*","T","*","*">>

\* "**"
MarkerLine == <<"*","*">>

\* "****"
MarkersLine == <<"*","*","*","*">>

\* "- **Description:** D"
DescLine == <<"-"," ","*","*","D","e","s","c","r","i","p","t","i","o","n",":","*","*"," ","D">>

\* "  - **Due Date:** May 5, 2025"
DueLine == <<" "," ","-"," ","*","*","D","u","e"," ","D","a","t","e",":","*","*"," ","M","a","y"," ","5",","," ","2","0","2","5">>

\* "- **Due Date:** not-a-date"
BadDueLine == <<"-"," ","*","*","D","u","e"," ","D","a","t","e",":","*","*"," ","n","o","t","-","a","-","d","a","t","e">>

\* ""
EmptyLine == <<>>

\* Example 1 of the specification, line by line
ExampleTitleLine == <<"1","."," ","*","*","F","i","n","i","s","h"," ","r","e","p","o","r","t","*","*">>

ExampleDescLine == <<" "," "," ","-"," ","*","*","D","e","s","c","r","i","p","t","i","o","n",":","*","*"," ","D","r","a","f","t"," ","o","u","t","l","i","n","e">>

ExampleDueLine == <<" "," "," ","-"," ","*","*","D","u","e"," ","D","a","t","e",":","*","*"," ","M","a","r","c","h"," ","5",","," ","2","0","2","5">>

FreeLines ==
    {WeekLine, TitleLine, MarkerLine, MarkersLine, DescLine, DueLine,
     BadDueLine, EmptyLine}

\* a well-formed block, a block whose due-date line is missing, a block whose
\* due date is not a date, and the block of Example 1
WellFormedBlock == <<TitleLine, DescLine, DueLine>>

NoDueBlock == <<TitleLine, DescLine>>

BadDateBlock == <<TitleLine, DescLine, BadDueLine>>

ExampleBlock == <<ExampleTitleLine, ExampleDescLine, ExampleDueLine>>

Blocks == {WellFormedBlock, NoDueBlock, BadDateBlock, ExampleBlock}

SeqsUpTo(S, n) == UNION {[1..k -> S] : k \in 0..n}

RECURSIVE Flatten(_)
Flatten(ss) == IF Len(ss) = 0 THEN <<>> ELSE ss[1] \o Flatten(Tail(ss))

\* reports of up to MaxLines arbitrary lines
FreeReports == {Join(ls, Newline) : ls \in SeqsUpTo(FreeLines, MaxLines)}

\* reports made of a week header and up to MaxBlocks blocks, with or without
\* the final newline
BlockReports ==
    {Join(<<WeekLine>> \o Flatten(bs) \o last, Newline) :
        bs \in SeqsUpTo(Blocks, MaxBlocks), last \in {<<>>, <<EmptyLine>>}}

Reports == FreeReports \cup BlockReports

\* the date on which the report is processed
ProcessingDates == {DateTime(2026, 11, 5, 0)}

(***************************************************************************)
(* State.                                                                  *)
(***************************************************************************)
VARIABLES
    report,         \* the argument of parse_schedule_report
    today,          \* the calendar date while the report is processed
    pc,             \* "idle", "loop", "done" or "raised"
    lines,          \* report.split('\n')
    current_week,   \* the last week header seen, or None
    idx,            \* the scan index
    events,         \* the list that is returned
    origin,         \* origin[k]: the index of the title line of events[k]
    examined,       \* the indices read as lines[idx] at the loop head
    consumed,       \* the indices read as lines[idx + 1], lines[idx + 2]
    prev,           \* the list the previous call returned
    calls           \* the number of calls so far

vars == <<report, today, pc, lines, current_week, idx, events, origin,
          examined, consumed, prev, calls>>

VARIABLES
    session,        \* st.session_state of one browser session
    users,          \* the documents of users_collection
    shown,          \* the outcome of display_integrated_calendars in the
                    \* last run of the script
    drawn,          \* the last run of the script drew the Logout button
    decoded,        \* the outcome of extract_events_from_content in the
                    \* last run
    fetched,        \* what fetch_canvas_calendar met in the last run
    gen,            \* the number of schedule generations so far
    reg             \* reg[p]: the register_user call of session p

appvars == <<session, users, shown, drawn, decoded, fetched, gen, reg>>

\* the application state while only the parser is exercised
AppQuiet ==
    /\ session = <<>>
    /\ users = <<>>
    /\ shown = <<>>
    /\ drawn = FALSE
    /\ decoded = <<>>
    /\ fetched = <<>>
    /\ gen = 0
    /\ reg = <<>>

Init ==
    /\ report \in Reports
    /\ today \in ProcessingDates
    /\ pc = "idle"
    /\ lines = <<>>
    /\ current_week = None
    /\ idx = 0
    /\ events = <<>>
    /\ origin = <<>>
    /\ examined = {}
    /\ consumed = {}
    /\ prev = <<>>
    /\ calls = 0
    /\ AppQuiet

\* the caller invokes parse_schedule_report(report); the body runs up to
\* the loop head
Call ==
    /\ pc \in {"idle", "done"}
    /\ calls < MaxCalls
    /\ calls' = calls + 1
    /\ prev' = events
    /\ events' = <<>>
    /\ lines' = Split(report, Newline)
    /\ current_week' = None
    /\ idx' = 0
    /\ origin' = <<>>
    /\ examined' = {}
    /\ consumed' = {}
    /\ pc' = "loop"
    /\ UNCHANGED <<report, today>>
    /\ UNCHANGED appvars

\* line = lines[idx].strip()
Line == Strip(Index(lines, idx).val)

AtLoopBody == pc = "loop" /\ idx < Len(lines)

\* an iteration on a week header
WeekHeader ==
    /\ AtLoopBody
    /\ IsWeekLine(Line)
    /\ current_week' = Line
    /\ idx' = AfterLine(idx)
    /\ examined' = examined \cup {idx}
    /\ UNCHANGED <<report, today, pc, lines, events, origin, consumed, prev, calls>>
    /\ UNCHANGED appvars

\* an iteration on a title line under a known week, with two lines after it
TitleBlock ==
    /\ AtLoopBody
    /\ ~IsWeekLine(Line)
    /\ IsTitleLine(Line) /\ WeekKnown(current_week)
    /\ HasNextTwo(idx, lines)
    /\ examined' = examined \cup {idx}
    /\ \E clock \in 0..MaxClock :
         LET title       == Title(Line)
             raw_desc    == Index(lines, idx + 1)
             raw_due     == Index(lines, idx + 2)
             now         == DateTime(today.year, today.month, today.day, clock)
             description == Description(Strip(raw_desc.val))
             due_date    == DueDate(Strip(raw_due.val), now)
         IN  IF \/ Raised(raw_desc) \/ Raised(raw_due)
                \/ Raised(description) \/ Raised(due_date)
             THEN /\ pc' = "raised"
                  /\ UNCHANGED <<events, origin, idx, consumed>>
             ELSE /\ events' = Append(events,
                                  make_all_day(Event(title, due_date.val,
                                                     description.val)))
                  /\ origin' = Append(origin, idx)
                  /\ consumed' = consumed \cup {idx + 1, idx + 2}
                  /\ idx' = AfterEvent(idx)
                  /\ pc' = pc
    /\ UNCHANGED <<report, today, lines, current_week, prev, calls>>
    /\ UNCHANGED appvars

\* any other iteration: a line that is neither, a title before any week
\* header, or a title with fewer than two lines after it
SkipLine ==
    /\ AtLoopBody
    /\ ~IsWeekLine(Line)
    /\ ~(IsTitleLine(Line) /\ WeekKnown(current_week) /\ HasNextTwo(idx, lines))
    /\ idx' = AfterLine(idx)
    /\ examined' = examined \cup {idx}
    /\ UNCHANGED <<report, today, pc, lines, current_week, events, origin,
                   consumed, prev, calls>>
    /\ UNCHANGED appvars

\* the loop condition fails: return events
Return ==
    /\ pc = "loop"
    /\ ~(idx < Len(lines))
    /\ pc' = "done"
    /\ UNCHANGED <<report, today, lines, current_week, idx, events, origin,
                   examined, consumed, prev, calls>>
    /\ UNCHANGED appvars

Next == Call \/ WeekHeader \/ TitleBlock \/ SkipLine \/ Return

Spec == Init /\ [][Next]_<<vars, appvars>>

\* the interpreter runs a call to its end
FairSpec == Spec /\ WF_vars(WeekHeader \/ TitleBlock \/ SkipLine \/ Return)

(***************************************************************************)
(* Vocabulary of the properties, stated on the input lines themselves.     *)
(***************************************************************************)
\* the trimmed content of the 0-based line i of the report being scanned
Trimmed(i) == Strip(lines[i + 1])

LineIndices == 0..(Len(lines) - 1)

\* a title line: its trimmed content starts with '**'
TitleAt(i) == StartsWith(Trimmed(i), BoldMarker)

\* a week-header line: its trimmed content starts with "Week"
WeekAt(i) == StartsWith(Trimmed(i), WeekToken)

\* some week-header line precedes line i
WeekSeenBefore(i) == \E j \in 0..(i - 1) : WeekAt(j)

\* the title line at i produced an event
EventOf(i) == \E k \in 1..Len(events) : origin[k] = i

\* the processing date as the start of an all-day event
ProcessingDay == DateTime(today.year, today.month, today.day, 0)

\* the text after the label of a due-date line
DueText(i) == Strip(Split(Trimmed(i), DueDateLabel)[2])

Scanning == pc \in {"loop", "done", "raised"}

(***************************************************************************)
(* C1: for every report, parse_schedule_report terminates and returns      *)
(* without raising: no line makes the call raise, and every iteration of   *)
(* the scan strictly advances the index, which never passes the end of     *)
(* the input by more than two, so that the distance to that bound is a     *)
(* variant of the loop.                                                    *)
(***************************************************************************)
C1_TerminatesWithoutRaising ==
    /\ [](pc # "raised")
    /\ [][(pc = "loop" /\ pc' = "loop") => idx' > idx]_vars
    /\ [](pc = "loop" => idx <= Len(lines) + 2)

\* a call returned events from a report that ends in a block cut short
C1_Witness ==
    /\ pc = "done"
    /\ Len(events) >= 1
    /\ \E i \in examined :
          TitleAt(i) /\ WeekSeenBefore(i) /\ i + 2 >= Len(lines)

(***************************************************************************)
(* C2 (as stated): a title line met before any week header, with two       *)
(* lines after it, is parsed into an event.                                *)
(***************************************************************************)
C2_TitleBeforeWeekKept ==
    pc = "done" =>
        \A i \in examined :
            (TitleAt(i) /\ ~WeekSeenBefore(i) /\ i + 2 < Len(lines))
                => EventOf(i)

(***************************************************************************)
(* C2 (amended): a title line met before any week header is skipped: it    *)
(* produces no event, so the title line of every event follows a week      *)
(* header, and the scan moves on to the next line.                         *)
(***************************************************************************)
C2_TitleBeforeWeekSkipped ==
    /\ [](Scanning => \A k \in 1..Len(events) : WeekSeenBefore(origin[k]))
    /\ [][(pc = "loop" /\ idx < Len(lines) /\ TitleAt(idx)
             /\ ~WeekSeenBefore(idx))
          => (idx' = idx + 1 /\ events' = events)]_vars

\* a complete block before any week header was scanned and gave no event
C2_Witness ==
    /\ pc = "done"
    /\ Len(lines) >= 3
    /\ TitleAt(0) /\ 0 \in examined
    /\ ~EventOf(0)
    /\ \A j \in LineIndices : ~WeekAt(j)

(***************************************************************************)
(* C3 (as stated): a title line under a known week that is the last or     *)
(* the second-to-last line of the report still gives an event, with the    *)
(* default description when line title+1 is missing and the processing     *)
(* date for the missing due date.                                          *)
(***************************************************************************)
C3_ShortBlockEmitted ==
    pc = "done" =>
        \A i \in examined :
            (TitleAt(i) /\ WeekSeenBefore(i) /\ i + 2 >= Len(lines))
                => \E k \in 1..Len(events) :
                      /\ origin[k] = i
                      /\ events[k].begin = ProcessingDay
                      /\ (i + 1 >= Len(lines)
                            => events[k].description = NoDescription)

ExampleReport ==
    Join(<<WeekLine, ExampleTitleLine, ExampleDescLine, ExampleDueLine,
           EmptyLine>>, Newline)

\* "Finish report"
ExampleTitle == <<"F","i","n","i","s","h"," ","r","e","p","o","r","t">>

\* "Draft outline"
ExampleDescription == <<"D","r","a","f","t"," ","o","u","t","l","i","n","e">>

C5_ExampleOneParsed ==
    (pc = "done" /\ report = ExampleReport) =>
        /\ Len(events) = 1
        /\ events[1].name = ExampleTitle
        /\ events[1].description = ExampleDescription
        /\ events[1].begin = DateTime(2025, 3, 5, 0)

(***************************************************************************)
(* C6 (as stated): every well-formed block under a known week (a title     *)
(* line immediately followed by a Description line and a Due Date line)    *)
(* gives its own event, wherever a malformed block is placed.              *)
(***************************************************************************)
WellFormedAt(i) ==
    /\ i + 2 < Len(lines)
    /\ TitleAt(i)
    /\ StartsWith(Trimmed(i + 1), DescriptionLabel)
    /\ StartsWith(Trimmed(i + 2), DueDateLabel)

C6_WellFormedBlocksSurvive ==
    pc = "done" =>
        \A i \in LineIndices :
            (WellFormedAt(i) /\ WeekSeenBefore(i)) => EventOf(i)

(***************************************************************************)
(* C7: the number of events returned is at most the number of title lines  *)
(* of the report.                                                          *)
(***************************************************************************)
TitleLineCount == Cardinality({i \in LineIndices : TitleAt(i)})

C7_AtMostOnePerTitle == Scanning => Len(events) <= TitleLineCount

\* two events from a report with a third title line that gave none
C7_Witness ==
    /\ pc = "done"
    /\ Len(events) = 2
    /\ TitleLineCount = 3

(***************************************************************************)
(* C8: after an event for the title at line i the scan resumes at i+3;     *)
(* the lines i+1 and i+2 are never examined as week-header or title lines  *)
(* and no line belongs to more than one event.                             *)
(***************************************************************************)
Block(i) == {i, i + 1, i + 2}

C8_ResumesPastBlock ==
    /\ [][Len(events') = Len(events) + 1 => idx' = idx + 3]_vars
    /\ [](Scanning => examined \cap consumed = {})
    /\ [](Scanning => \A k \in 1..Len(events) :
                          /\ Block(origin[k]) \cap examined = {origin[k]}
                          /\ \A j \in 1..Len(events) :
                                j # k => Block(origin[j]) \cap Block(origin[k]) = {})

\* a consumed line that is itself a title line was passed over, and the
\* scan went on to a later event
C8_Witness ==
    /\ pc = "done"
    /\ Len(events) >= 2
    /\ \E i \in consumed : TitleAt(i) /\ i < origin[Len(events)]

(***************************************************************************)
(* C9 (as stated): every event has a non-empty title and a description     *)
(* that is not None.                                                       *)
(***************************************************************************)
C9_TitleNonEmpty ==
    Scanning =>
        \A k \in 1..Len(events) :
            /\ events[k].name # <<>>
            /\ events[k].description # None

(***************************************************************************)
(* C10: parsing the same report again on the same processing date gives a  *)
(* list of the same length whose events agree, position by position, on    *)
(* title, description and start.                                           *)
(***************************************************************************)
C10_Deterministic ==
    (pc = "done" /\ calls >= 2) =>
        /\ Len(events) = Len(prev)
        /\ \A k \in 1..Len(events) :
              /\ events[k].name = prev[k].name
              /\ events[k].description = prev[k].description
              /\ events[k].begin = prev[k].begin

\* the second call returned events, one of them dated by the clock
C10_Witness ==
    /\ pc = "done"
    /\ calls = 2
    /\ Len(events) >= 2
    /\ \E k \in 1..Len(events) :
          /\ ~StartsWith(Trimmed(origin[k] + 2), DueDateLabel)
          /\ events[k].begin = ProcessingDay


(***************************************************************************)
(* parse_schedule_report as one call: the same loop, run to its end.       *)
(***************************************************************************)
RECURSIVE Scan(_, _, _, _, _)
\* the while loop from the state (i, week, evs); now is datetime.today()
Scan(ls, i, week, evs, now) ==
    IF ~(i < Len(ls)) THEN Ok(evs)
    ELSE LET line == Strip(ls[i + 1])
         IN  IF IsWeekLine(line)
             THEN Scan(ls, AfterLine(i), line, evs, now)
             ELSE IF IsTitleLine(line) /\ WeekKnown(week) /\ HasNextTwo(i, ls)
             THEN LET raw_desc    == Index(ls, i + 1)
                      raw_due     == Index(ls, i + 2)
                      description == Description(Strip(raw_desc.val))
                      due_date    == DueDate(Strip(raw_due.val), now)
                  IN  IF Raised(raw_desc) THEN raw_desc
                      ELSE IF Raised(raw_due) THEN raw_due
                      ELSE IF Raised(description) THEN description
                      ELSE IF Raised(due_date) THEN due_date
                      ELSE Scan(ls, AfterEvent(i), week,
                                Append(evs, make_all_day(Event(Title(line),
                                                               due_date.val,
                                                               description.val))),
                                now)
             ELSE Scan(ls, AfterLine(i), week, evs, now)

\* parse_schedule_report(report): None has no split
parse_schedule_report(r, now) ==
    IF r = None THEN Raise("AttributeError")
    ELSE Scan(Split(r, Newline), 0, None, <<>>, now)

\* the step-by-step loop and the one-call form give the same list
ScanAgrees == pc = "done" => Ok(events) = parse_schedule_report(report, today)


(***************************************************************************)
(* Bounds of the session model.                                            *)
(***************************************************************************)
\* most entries of gemini_tasks
MaxTasks == 2
\* most schedule generations of one session
MaxGenerations == 2
\* most calendar URLs of one Canvas account
MaxFeeds == 2

(***************************************************************************)
(* Python and ics values.                                                  *)
(***************************************************************************)
\* a key st.session_state does not hold, and a key it holds
Absent == <<>>

Some(v) == <<v>>

\* st.session_state.get(key, default)
Get(state, key, default) ==
    IF Len(state[key]) = 0 THEN default ELSE state[key][1]

\* the value None where an object or a dict is expected
NoneValue == [class |-> "NoneType"]

\* the dict {}
EmptyDict == [key \in {} |-> key]

\* bool(obj) of None, a dict or an object without __bool__ and __len__
TruthyObject(obj) ==
    IF "class" \in DOMAIN obj THEN obj.class # "NoneType"
    ELSE DOMAIN obj # {}

\* d.get(key) of a dict
DictGet(d, key) == IF key \in DOMAIN d THEN d[key] ELSE None

\* ics.Event(): the constructor gives the event a fresh uid
WithUid(event, uid) ==
    [class |-> "Event", uid |-> uid, name |-> event.name,
     begin |-> event.begin, description |-> event.description,
     all_day |-> event.all_day]

\* obj[key]: an ics Event defines no __getitem__; a dict is a record here
Subscript(obj, key) ==
    IF "class" \in DOMAIN obj THEN Raise("TypeError")
    ELSE IF key \in DOMAIN obj THEN Ok(obj[key])
    ELSE Raise("KeyError")

\* the decimal digits of n, padded with zeros to width w
RECURSIVE Pad(_, _)
Pad(n, w) ==
    IF w = 0 THEN <<>>
    ELSE Pad(n \div 10, w - 1) \o <<Digits[(n % 10) + 1]>>

\* date.isoformat(): "YYYY-MM-DD"
DateIso(d) == Pad(d.year, 4) \o <<"-">> \o Pad(d.month, 2) \o <<"-">> \o Pad(d.day, 2)

\* the isoformat() of the begin or end of an all-day event:
\* "YYYY-MM-DDT00:00:00+00:00"
IsoFormat(d) ==
    DateIso(d) \o <<"T","0","0",":","0","0",":","0","0","+","0","0",":","0","0">>

\* the day after d
NextDay(d) ==
    IF d.day < DaysInMonth(d.year, d.month)
    THEN DateTime(d.year, d.month, d.day + 1, d.time)
    ELSE IF d.month < 12 THEN DateTime(d.year, d.month + 1, 1, d.time)
    ELSE DateTime(d.year + 1, 1, 1, d.time)

\* event.end of an event that has only a begin: the next day when the
\* event is all-day, the begin otherwise
End(event) == IF event.all_day THEN NextDay(event.begin) ELSE event.begin

\* the elements of a list
Range(list) == {list[k] : k \in 1..Len(list)}


(***************************************************************************)
(* The reports the schedule service returns.                               *)
(***************************************************************************)
\* a report with two blocks that are alike, one with a block whose due date
\* is not a date, and one without a week header
TwoEventReport ==
    Join(<<WeekLine>> \o WellFormedBlock \o WellFormedBlock \o <<EmptyLine>>,
         Newline)

OneEventReport == Join(<<WeekLine>> \o BadDateBlock \o <<EmptyLine>>, Newline)

NoEventReport == Join(ExampleBlock, Newline)

SessionReports == {TwoEventReport, OneEventReport, NoEventReport}

\* parse_schedule_report(r) on the day now, for every value create_gemini_task
\* can pass to it
Parsed ==
    [r \in SessionReports \cup {None}, now \in ProcessingDates |->
        parse_schedule_report(r, now)]

(***************************************************************************)
(* The handlers of the session, as functions of st.session_state.          *)
(***************************************************************************)
\* the keys the script sets before it draws a page
InitialSession ==
    [logged_in |-> FALSE, is_registering |-> FALSE,
     integration_complete |-> FALSE, integration_in_progress |-> FALSE,
     view_option |-> "List View",
     username |-> Absent, canvas_events |-> Absent, gemini_tasks |-> Absent,
     schedule_report |-> Absent, gemini_events |-> Absent,
     ics_file |-> Absent]

\* hashlib.sha256(password.encode()).hexdigest()
hash_password(password) == <<"sha256", password>>

\* users_collection.find_one(query) is not None, for a query on username
\* alone or on username and password
Found(collection, query) ==
    \E k \in 1..Len(collection) :
        \A key \in DOMAIN query : collection[k][key] = query[key]

login(collection, username, password) ==
    Found(collection, [username |-> username,
                       password |-> hash_password(password)])

\* an earlier definition of logout, which leaves gemini_events and ics_file
logout_Earlier(state) ==
    [state EXCEPT !.logged_in = FALSE, !.is_registering = FALSE,
                  !.integration_complete = FALSE,
                  !.integration_in_progress = FALSE,
                  !.canvas_events = Some(<<>>),
                  !.gemini_tasks = Some(<<>>),
                  !.schedule_report = Some(<<>>)]

logout(state) ==
    [state EXCEPT !.logged_in = FALSE, !.is_registering = FALSE,
                  !.integration_complete = FALSE,
                  !.integration_in_progress = FALSE,
                  !.canvas_events = Some(<<>>),
                  !.gemini_tasks = Some(<<>>),
                  !.schedule_report = Some(<<>>),
                  !.gemini_events = Some(<<>>),
                  !.ics_file = Some(NoneValue)]

\* what requests.get(url) and Calendar(response.text) do for one URL
HealthyFeed(evs) == [kind |-> "ok", events |-> evs]

StatusFeed == [kind |-> "status", events |-> <<>>]

UnreachableFeed == [kind |-> "unreachable", events |-> <<>>]

UndecodableFeed == [kind |-> "undecodable", events |-> <<>>]

RECURSIVE Collect(_, _)
\* the loop over calendar_urls, with the events collected so far
Collect(feeds, evs) ==
    IF Len(feeds) = 0 THEN Ok(evs)
    ELSE LET feed == Head(feeds)
         IN  IF feed.kind = "unreachable" THEN Raise("ConnectionError")
             ELSE IF feed.kind = "status" THEN Collect(Tail(feeds), evs)
             ELSE IF feed.kind = "undecodable" THEN Raise("ParseError")
             ELSE Collect(Tail(feeds), evs \o feed.events)

\* CanvasAPI.get_calendar_events, given what extract_calendar_urls gives
get_calendar_events(calendar_urls) ==
    IF Raised(calendar_urls) THEN calendar_urls
    ELSE Collect(calendar_urls.val, <<>>)

\* a variant that marks the integration complete whatever the fetch gave
fetch_canvas_calendar_Unguarded(state, calendar_urls) ==
    LET result == get_calendar_events(calendar_urls)
    IN  IF Raised(result)
        THEN [state EXCEPT !.integration_in_progress = FALSE]
        ELSE [state EXCEPT !.integration_complete = TRUE,
                           !.canvas_events = Some(result.val),
                           !.integration_in_progress = FALSE]

fetch_canvas_calendar(state, calendar_urls) ==
    LET result == get_calendar_events(calendar_urls)
    IN  IF Raised(result)
        THEN [state EXCEPT !.integration_in_progress = FALSE]
        ELSE IF Len(result.val) > 0
        THEN [state EXCEPT !.integration_complete = TRUE,
                           !.canvas_events = Some(result.val),
                           !.integration_in_progress = FALSE]
        ELSE [state EXCEPT !.integration_in_progress = FALSE]

\* generate_schedule_with_gemini: the response, or None when the request
\* raised
generate_schedule_with_gemini(outcome) ==
    IF Raised(outcome) THEN NoneValue ELSE outcome.val

\* a variant in which events that differ in their uid alone are one event
create_ics_file_ByContent(evs) ==
    [class |-> "Calendar",
     events |-> {[e EXCEPT !.uid = <<>>] : e \in Range(evs)}]

\* create_ics_file: cal.events is a set of Event objects
create_ics_file(evs) == [class |-> "Calendar", events |-> Range(evs)]

\* create_gemini_task, given the outcome of the request, the value of
\* datetime.today() and the number g of this generation; an exception of
\* parse_schedule_report leaves the function at line 658
create_gemini_task(state, outcome, now, g) ==
    LET response == generate_schedule_with_gemini(outcome)
    IN  IF ~TruthyObject(response) THEN state
        ELSE LET schedule_report == DictGet(response, "generated_content")
                 stored == [state EXCEPT !.schedule_report = Some(schedule_report)]
                 parsed == Parsed[schedule_report, now]
             IN  IF Raised(parsed) THEN stored
                 ELSE LET gemini_events ==
                              [k \in 1..Len(parsed.val) |->
                                  WithUid(parsed.val[k], <<g, k>>)]
                      IN  [stored EXCEPT
                              !.gemini_events = Some(gemini_events),
                              !.ics_file = Some(create_ics_file(gemini_events))]


\* the entry of a Canvas event: event['summary'], event['start'] and
\* event['end'] of an ics Event
CanvasEntry(event) ==
    LET title == Subscript(event, "summary")
        start == Subscript(event, "start")
        end   == Subscript(event, "end")
    IN  IF Raised(title) THEN title
        ELSE IF Raised(start) THEN start
        ELSE IF Raised(end) THEN end
        ELSE Ok([title |-> title.val, start |-> IsoFormat(start.val),
                 end |-> IsoFormat(end.val), color |-> "red"])

\* a variant that gives an ad-hoc task the colour of a Canvas event
TaskEntry_Red(task) ==
    [title |-> task.summary, start |-> task.start, end |-> task.start,
     color |-> "red"]

\* the entry of an ad-hoc task
TaskEntry(task) ==
    [title |-> task.summary, start |-> task.start, end |-> task.start,
     color |-> "blue"]

\* the entry of an event parsed from the schedule report
EventEntry(event) ==
    [title |-> event.name, start |-> IsoFormat(event.begin),
     end |-> IsoFormat(End(event)), color |-> "green"]

\* display_integrated_calendars: the list tasks, or the exception that
\* ends the function
display_integrated_calendars(state) ==
    LET canvas_events == Get(state, "canvas_events", <<>>)
        gemini_tasks  == Get(state, "gemini_tasks", <<>>)
        gemini_events == Get(state, "gemini_events", <<>>)
        entries == [k \in 1..Len(canvas_events) |-> CanvasEntry(canvas_events[k])]
        failed  == {k \in 1..Len(canvas_events) : Raised(entries[k])}
    IN  IF failed # {} THEN entries[Min(failed)]
        ELSE Ok([k \in 1..Len(canvas_events) |-> entries[k].val]
                \o [k \in 1..Len(gemini_tasks) |-> TaskEntry(gemini_tasks[k])]
                \o [k \in 1..Len(gemini_events) |-> EventEntry(gemini_events[k])])

\* "YYYYMMDD", the value of DTSTART;VALUE=DATE
DateValue(d) == Pad(d.year, 4) \o Pad(d.month, 2) \o Pad(d.day, 2)

\* the reading of "YYYYMMDD"
ParseDateValue(s) ==
    DateTime(DigitVal(s[1]) * 1000 + DigitVal(s[2]) * 100
                 + DigitVal(s[3]) * 10 + DigitVal(s[4]),
             DigitVal(s[5]) * 10 + DigitVal(s[6]),
             DigitVal(s[7]) * 10 + DigitVal(s[8]), 0)

\* the VEVENT of an all-day event: its content lines by property name; an
\* empty name or description gives no SUMMARY or DESCRIPTION line
Component(event) ==
    [UID |-> Some(event.uid),
     SUMMARY |-> IF Len(event.name) = 0 THEN Absent ELSE Some(event.name),
     DESCRIPTION |-> IF Len(event.description) = 0 THEN Absent
                     ELSE Some(event.description),
     DTSTART |-> Some(DateValue(event.begin))]

\* cal.serialize(): the VEVENTs of the document
Serialize(cal) == {Component(event) : event \in cal.events}

\* Calendar(content) of ics: the events of the document
Calendar(content) ==
    [class |-> "Calendar",
     events |-> {[class |-> "Event", uid |-> c.UID[1],
                  name |-> IF Len(c.SUMMARY) = 0 THEN <<>> ELSE c.SUMMARY[1],
                  begin |-> ParseDateValue(c.DTSTART[1]),
                  description |-> IF Len(c.DESCRIPTION) = 0 THEN <<>>
                                  ELSE c.DESCRIPTION[1],
                  all_day |-> TRUE] : c \in content}]

\* the attributes of an ics Calendar the code asks for
CalendarAttributes == {"events", "serialize"}

\* extract_events_from_content: gcal.walk() of an ics Calendar
extract_events_from_content(content) ==
    LET gcal == Calendar(content)
    IN  IF "walk" \notin CalendarAttributes THEN Raise("AttributeError")
        ELSE Ok({[uid |-> e.uid, summary |-> e.name, start |-> e.begin,
                  description |-> e.description] : e \in gcal.events})


\* register_user as one uninterrupted call: its result and the collection
\* it leaves
register_user(collection, username, password) ==
    IF Found(collection, [username |-> username])
    THEN [result |-> FALSE, collection |-> collection]
    ELSE [result |-> TRUE,
          collection |-> Append(collection,
                                [username |-> username,
                                 password |-> hash_password(password)])]

(***************************************************************************)
(* The inputs of the session.                                              *)
(***************************************************************************)
Usernames == {"ann"}

Passwords == {"pw"}

\* "Essay", "Quiz", "Draft"
EssayTitle == <<"E","s","s","a","y">>

QuizTitle == <<"Q","u","i","z">>

DraftText == <<"D","r","a","f","t">>

\* what the task form submits for the n-th task of the list: an essay, then
\* a quiz, and so on in turn; the due date is not before today
TaskInput(n) ==
    IF n % 2 = 1
    THEN [summary |-> EssayTitle, description |-> DraftText,
          start |-> DateIso(DateTime(2026, 11, 5, 0))]
    ELSE [summary |-> QuizTitle, description |-> DraftText,
          start |-> DateIso(DateTime(2026, 12, 31, 0))]

\* what gemini.create_schedule can do: raise, or return {}, a dict without
\* the key generated_content, or a dict with a report under that key
ApiOutcomes ==
    {Raise("RequestException"), Ok(EmptyDict), Ok([error |-> "quota"])}
    \cup {Ok([generated_content |-> r]) : r \in SessionReports}

\* the events of a Canvas feed
HomeworkEvent ==
    [class |-> "Event", uid |-> <<"canvas", 1>>, name |-> <<"H","W">>,
     begin |-> DateTime(2026, 11, 30, 0), description |-> <<>>,
     all_day |-> TRUE]

ExamEvent ==
    [class |-> "Event", uid |-> <<"canvas", 2>>, name |-> <<"E","x","a","m">>,
     begin |-> DateTime(2026, 12, 31, 0), description |-> <<>>,
     all_day |-> TRUE]

\* a feed can be listed for more than one course
Feeds ==
    {HealthyFeed(<<HomeworkEvent, ExamEvent>>), StatusFeed, UnreachableFeed,
     UndecodableFeed}

\* what extract_calendar_urls can do: raise, or return up to MaxFeeds URLs
UrlOutcomes ==
    {Raise("ConnectionError")} \cup {Ok(fs) : fs \in SeqsUpTo(Feeds, MaxFeeds)}

\* nothing displayed or decoded
Pending == [exc |-> "pending", val |-> <<>>]

\* the events of the feeds that answer 200 with a calendar, in list order
HealthyEvents(feeds) ==
    Flatten([k \in 1..Len(feeds) |->
                IF feeds[k].kind = "ok" THEN feeds[k].events ELSE <<>>])

\* what a fetch met: whether it ran, whether a feed was unreachable or
\* undecodable, the events of the healthy feeds, and the outcome of
\* get_calendar_events
NotFetched ==
    [ran |-> FALSE, failed |-> FALSE, healthy |-> <<>>, result |-> Pending]

Met(calendar_urls) ==
    [ran |-> TRUE,
     failed |-> /\ ~Raised(calendar_urls)
                /\ \E k \in 1..Len(calendar_urls.val) :
                      calendar_urls.val[k].kind \in {"unreachable", "undecodable"},
     healthy |-> IF Raised(calendar_urls) THEN <<>>
                 ELSE HealthyEvents(calendar_urls.val),
     result |-> get_calendar_events(calendar_urls)]

(***************************************************************************)
(* The session: one action per run of the script.  A run handles the       *)
(* button that was pressed and then draws the rest of the main page.       *)
(***************************************************************************)
\* display_task_list: it reads event['summary'] of every Canvas event
display_task_list(state) ==
    LET canvas_tasks == Get(state, "canvas_events", <<>>)
        entries == [k \in 1..Len(canvas_tasks) |-> Subscript(canvas_tasks[k], "summary")]
        failed  == {k \in 1..Len(canvas_tasks) : Raised(entries[k])}
    IN  IF failed # {} THEN entries[Min(failed)] ELSE Ok(<<>>)

\* the main page from "Display Integrated Data" to the Logout button, with
\* the state of the Gemini checkbox and of the view radio: the session it
\* leaves, the calendar view it shows, and whether the run got as far as the
\* Logout button
PageTail(state, integrate_gemini, view) ==
    IF state.integration_complete \/ integrate_gemini
    THEN LET chosen == [state EXCEPT !.view_option = view]
             out == IF view = "List View" THEN display_task_list(chosen)
                    ELSE display_integrated_calendars(chosen)
         IN  [state |-> chosen,
              shown |-> IF view = "List View" THEN Pending ELSE out,
              drawn |-> ~Raised(out)]
    ELSE [state |-> state, shown |-> Pending, drawn |-> TRUE]

Views == {"List View", "Calendar View"}

\* the run ends with the rest of the main page, drawn from the session the
\* button handler left
Draw(handled, integrate_gemini, view) ==
    \E page \in {PageTail(handled, integrate_gemini, view)} :
        /\ session' = page.state
        /\ shown' = page.shown
        /\ drawn' = page.drawn

\* the parser variables while the session is exercised
ParserQuiet ==
    /\ report = <<>>
    /\ today \in ProcessingDates
    /\ pc = "idle"
    /\ lines = <<>>
    /\ current_week = None
    /\ idx = 0
    /\ events = <<>>
    /\ origin = <<>>
    /\ examined = {}
    /\ consumed = {}
    /\ prev = <<>>
    /\ calls = 0

SessionInit ==
    /\ ParserQuiet
    /\ session = InitialSession
    /\ users = <<>>
    /\ shown = Pending
    /\ drawn = FALSE
    /\ decoded = Pending
    /\ fetched = NotFetched
    /\ gen = 0
    /\ reg = <<>>

\* the Register button of the login page
GoToRegister ==
    /\ ~session.logged_in /\ ~session.is_registering
    /\ session' = [session EXCEPT !.is_registering = TRUE]
    /\ UNCHANGED <<users, shown, drawn, decoded, fetched, gen, reg>>
    /\ UNCHANGED vars

\* the Register button of the register page, with both fields filled in
Register ==
    /\ ~session.logged_in /\ session.is_registering
    /\ \E username \in Usernames, password \in Passwords :
         LET done == register_user(users, username, password)
         IN  /\ users' = done.collection
             /\ session' = IF done.result
                           THEN [session EXCEPT !.is_registering = FALSE]
                           ELSE session
    /\ UNCHANGED <<shown, drawn, decoded, fetched, gen, reg>>
    /\ UNCHANGED vars

\* the Login button of the login page; after a login the script runs again
\* and draws the main page with nothing ticked
Login ==
    /\ ~session.logged_in /\ ~session.is_registering
    /\ \E username \in Usernames, password \in Passwords :
         IF login(users, username, password)
         THEN Draw([session EXCEPT !.logged_in = TRUE,
                                   !.username = Some(username)],
                   FALSE, "List View")
         ELSE UNCHANGED <<session, shown, drawn>>
    /\ fetched' = NotFetched
    /\ decoded' = Pending
    /\ UNCHANGED <<users, gen, reg>>
    /\ UNCHANGED vars

\* a run of the main page with no button pressed: a checkbox or the view
\* radio changed
Redraw ==
    /\ session.logged_in
    /\ \E integrate_gemini \in BOOLEAN, view \in Views :
         Draw(session, integrate_gemini, view)
    /\ fetched' = NotFetched
    /\ decoded' = Pending
    /\ UNCHANGED <<users, gen, reg>>
    /\ UNCHANGED vars

\* the Add Task button of the task form, with every field filled in; the
\* form is there when Gemini is ticked
AddTask ==
    /\ session.logged_in
    /\ Len(Get(session, "gemini_tasks", <<>>)) < MaxTasks
    /\ \E view \in Views :
         LET gemini_tasks == Get(session, "gemini_tasks", <<>>)
             task_details == TaskInput(Len(gemini_tasks) + 1)
         IN  Draw([session EXCEPT !.gemini_tasks =
                      Some(Append(gemini_tasks, task_details))],
                  TRUE, view)
    /\ fetched' = NotFetched
    /\ decoded' = Pending
    /\ UNCHANGED <<users, gen, reg>>
    /\ UNCHANGED vars

\* create_gemini_task ran to its end
Completed(state, outcome, now) ==
    LET response == generate_schedule_with_gemini(outcome)
    IN  \/ ~TruthyObject(response)
        \/ ~Raised(Parsed[DictGet(response, "generated_content"), now])

\* the Generate Weekly Schedule button, with a task in the list; an
\* exception of create_gemini_task ends the run
Generate ==
    /\ session.logged_in
    /\ Len(Get(session, "gemini_tasks", <<>>)) > 0
    /\ gen < MaxGenerations
    /\ gen' = gen + 1
    /\ \E outcome \in ApiOutcomes, view \in Views :
         \E handled \in {create_gemini_task(session, outcome, today, gen + 1)} :
             IF Completed(session, outcome, today)
             THEN Draw(handled, TRUE, view)
             ELSE /\ session' = handled
                  /\ shown' = Pending
                  /\ drawn' = FALSE
    /\ fetched' = NotFetched
    /\ decoded' = Pending
    /\ UNCHANGED <<users, reg>>
    /\ UNCHANGED vars

\* the Integrate button with Canvas ticked and a token entered
Integrate ==
    /\ session.logged_in
    /\ \E calendar_urls \in UrlOutcomes, integrate_gemini \in BOOLEAN,
          view \in Views :
         /\ \E handled \in {fetch_canvas_calendar(session, calendar_urls)} :
                Draw(handled, integrate_gemini, view)
         /\ fetched' = Met(calendar_urls)
    /\ decoded' = Pending
    /\ UNCHANGED <<users, gen, reg>>
    /\ UNCHANGED vars

\* the calendar behind the download link, serialized and read back
ReadBack ==
    /\ session.logged_in
    /\ TruthyObject(Get(session, "ics_file", NoneValue))
    /\ decoded' = extract_events_from_content(
                      Serialize(Get(session, "ics_file", NoneValue)))
    /\ UNCHANGED <<session, users, shown, drawn, fetched, gen, reg>>
    /\ UNCHANGED vars

\* the Logout button, which the last run drew: logout runs, and the next
\* run draws the login page
Logout ==
    /\ session.logged_in
    /\ drawn
    /\ session' = logout(session)
    /\ shown' = Pending
    /\ drawn' = FALSE
    /\ fetched' = NotFetched
    /\ decoded' = Pending
    /\ UNCHANGED <<users, gen, reg>>
    /\ UNCHANGED vars

SessionNext ==
    \/ GoToRegister \/ Register \/ Login \/ Redraw \/ AddTask \/ Generate
    \/ Integrate \/ ReadBack \/ Logout

SessionSpec == SessionInit /\ [][SessionNext]_<<vars, appvars>>


(***************************************************************************)
(* register_user called from several sessions at once: find_one and        *)
(* insert_one are two requests to the database, and the requests of        *)
(* different sessions interleave.                                          *)
(***************************************************************************)
\* sessions that register at the same time
MaxSessions == 2
\* most calls of register_user by one session
MaxRegistrations == 2

Sessions == 1..MaxSessions

NewUsernames == {"ann", "bob"}

\* a session that is not inside register_user, after n calls
Outside(n) ==
    [at |-> "outside", username |-> "", password |-> "", result |-> FALSE,
     calls |-> n]

RegisterInit ==
    /\ ParserQuiet
    /\ session = InitialSession
    /\ users = <<>>
    /\ shown = Pending
    /\ drawn = FALSE
    /\ decoded = Pending
    /\ fetched = NotFetched
    /\ gen = 0
    /\ reg = [p \in Sessions |-> Outside(0)]

\* register_user(username, password) up to the answer of find_one
FindOne ==
    \E p \in Sessions, username \in NewUsernames, password \in Passwords :
        /\ reg[p].at = "outside"
        /\ reg[p].calls < MaxRegistrations
        /\ reg' = [reg EXCEPT ![p] =
                      [at |-> IF Found(users, [username |-> username])
                              THEN "returned" ELSE "insert",
                       username |-> username, password |-> password,
                       result |-> FALSE, calls |-> reg[p].calls + 1]]
        /\ UNCHANGED <<session, users, shown, drawn, decoded, fetched, gen>>
        /\ UNCHANGED vars

\* hash_password, insert_one and return True
InsertOne ==
    \E p \in Sessions :
        /\ reg[p].at = "insert"
        /\ users' = Append(users, [username |-> reg[p].username,
                                   password |-> hash_password(reg[p].password)])
        /\ reg' = [reg EXCEPT ![p].at = "returned", ![p].result = TRUE]
        /\ UNCHANGED <<session, shown, drawn, decoded, fetched, gen>>
        /\ UNCHANGED vars

\* the caller has the result
Returned ==
    \E p \in Sessions :
        /\ reg[p].at = "returned"
        /\ reg' = [reg EXCEPT ![p] = Outside(reg[p].calls)]
        /\ UNCHANGED <<session, users, shown, drawn, decoded, fetched, gen>>
        /\ UNCHANGED vars

RegisterNext == FindOne \/ InsertOne \/ Returned

RegisterSpec == RegisterInit /\ [][RegisterNext]_<<vars, appvars>>


(***************************************************************************)
(* Vocabulary of the session properties.                                   *)
(***************************************************************************)
canvas_events == Get(session, "canvas_events", <<>>)

gemini_tasks == Get(session, "gemini_tasks", <<>>)

gemini_events == Get(session, "gemini_events", <<>>)

schedule_report == Get(session, "schedule_report", <<>>)

ics_file == Get(session, "ics_file", NoneValue)

\* the calendar view was computed in the last run, and it did not raise
Displayed == shown # Pending

Listed == shown.exc = "none"

\* the events a calendar holds; None holds none
Held(cal) == IF TruthyObject(cal) THEN cal.events ELSE {}

\* an ics event without its uid, as parse_schedule_report builds it
Content(event) ==
    [name |-> event.name, begin |-> event.begin,
     description |-> event.description, all_day |-> event.all_day]

\* C11: whenever the calendar view is computed, it lists one entry per
\* Canvas event, then one per ad-hoc task, then one per parsed event, each
\* group in the order of its list
C11_ProducerOrder ==
    Displayed =>
        /\ Listed
        /\ Len(shown.val) = Len(canvas_events) + Len(gemini_tasks) + Len(gemini_events)
        /\ \A k \in 1..Len(canvas_events) :
              shown.val[k].title = canvas_events[k].name
        /\ \A k \in 1..Len(gemini_tasks) :
              shown.val[Len(canvas_events) + k].title = gemini_tasks[k].summary
        /\ \A k \in 1..Len(gemini_events) :
              shown.val[Len(canvas_events) + Len(gemini_tasks) + k].title
                  = gemini_events[k].name

\* the source of the k-th entry of a calendar view that was listed
SourceAt(k) ==
    IF k <= Len(canvas_events) THEN "canvas"
    ELSE IF k <= Len(canvas_events) + Len(gemini_tasks) THEN "task"
    ELSE "schedule"

ColorOf(source) ==
    IF source = "canvas" THEN "red"
    ELSE IF source = "task" THEN "blue"
    ELSE "green"

\* C12: every entry of a listed calendar view has the colour of its source:
\* red for a Canvas event, blue for an ad-hoc task, green for a parsed event
C12_ColorBySource ==
    Listed =>
        \A k \in 1..Len(shown.val) : shown.val[k].color = ColorOf(SourceAt(k))

\* a calendar view with an ad-hoc task and a parsed event
C12_Witness ==
    /\ Listed
    /\ \E k \in 1..Len(shown.val) : SourceAt(k) = "task"
    /\ \E k \in 1..Len(shown.val) : SourceAt(k) = "schedule"

\* C13: the Canvas events that are stored have pairwise distinct uids, and
\* whenever the calendar view is computed it lists as many entries as the
\* three lists have elements
C13_UidsDisambiguated ==
    /\ \A i, j \in 1..Len(canvas_events) :
          canvas_events[i].uid = canvas_events[j].uid => i = j
    /\ Displayed =>
          /\ Listed
          /\ Len(shown.val) = Len(canvas_events) + Len(gemini_tasks) + Len(gemini_events)

\* C14: the calendar built from gemini_events holds every event of the list
\* and as many events as the list has; a report without events gives an
\* empty calendar
C14_OneComponentPerEvent ==
    /\ TruthyObject(ics_file) =>
          /\ Cardinality(ics_file.events) = Len(gemini_events)
          /\ \A k \in 1..Len(gemini_events) : gemini_events[k] \in ics_file.events
    /\ schedule_report = NoEventReport =>
          /\ TruthyObject(ics_file)
          /\ ics_file.events = {}

\* a calendar of two events that are alike but for their uid
C14_Witness ==
    /\ TruthyObject(ics_file)
    /\ Len(gemini_events) = 2
    /\ Content(gemini_events[1]) = Content(gemini_events[2])
    /\ Cardinality(ics_file.events) = 2

\* (uid, title, description, start) of an event
Tuple(event) ==
    [uid |-> event.uid, summary |-> event.name, start |-> event.begin,
     description |-> event.description]

\* C15: reading back the serialized calendar of a non-empty list of events
\* gives the (uid, title, description, start) tuples of the events
C15_RoundTrip ==
    (decoded # Pending /\ Len(gemini_events) > 0) =>
        /\ decoded.exc = "none"
        /\ decoded.val = {Tuple(e) : e \in Held(ics_file)}

\* C16: after a fetch that met an unreachable or undecodable feed, the
\* events of the healthy feeds are stored
C16_HealthyFeedsStored ==
    (fetched.ran /\ fetched.failed /\ Len(fetched.healthy) > 0) =>
        canvas_events = fetched.healthy

\* C17: no two documents of the users collection have the same username
C17_UsernamesUnique ==
    \A i, j \in 1..Len(users) :
        users[i].username = users[j].username => i = j

\* a session without data: the flags False, the lists and the report empty,
\* no calendar
Cleared(state) ==
    /\ ~state.logged_in
    /\ ~state.is_registering
    /\ ~state.integration_complete
    /\ ~state.integration_in_progress
    /\ Get(state, "canvas_events", <<>>) = <<>>
    /\ Get(state, "gemini_tasks", <<>>) = <<>>
    /\ Get(state, "gemini_events", <<>>) = <<>>
    /\ Get(state, "schedule_report", <<>>) = <<>>
    /\ ~TruthyObject(Get(state, "ics_file", NoneValue))

\* C18: every step that logs the user out leaves the flags False, the three
\* lists empty, the report empty and no calendar
C18_LogoutClears ==
    [][(session.logged_in /\ ~session'.logged_in) => Cleared(session')]_<<vars, appvars>>

\* the session after a logout that followed a schedule generation
C18_Witness ==
    /\ ~session.logged_in
    /\ gen > 0
    /\ session.gemini_events = Some(<<>>)
    /\ session.ics_file = Some(NoneValue)

\* the fetch of the last run collected no event or raised
FetchedNothing(met) ==
    met.ran /\ (Raised(met.result) \/ Len(met.result.val) = 0)

\* C19: integration_complete is True only while canvas_events is non-empty;
\* it becomes True only in a fetch that collected an event, a fetch that
\* collected none or raised changes neither, and logout resets both
C19_CompleteOnlyWithEvents ==
    /\ [](session.integration_complete => Len(canvas_events) > 0)
    /\ [][(~session.integration_complete /\ session'.integration_complete)
             => (fetched'.ran /\ ~FetchedNothing(fetched'))]_<<vars, appvars>>
    /\ [][FetchedNothing(fetched')
             => /\ session'.integration_complete = session.integration_complete
                /\ session'.canvas_events = session.canvas_events]_<<vars, appvars>>
    /\ [][(session.logged_in /\ ~session'.logged_in)
             => /\ ~session'.integration_complete
                /\ Get(session', "canvas_events", <<>>) = <<>>]_<<vars, appvars>>

\* a fetch has stored the events it collected
C19_Witness ==
    /\ fetched.ran
    /\ session.integration_complete
    /\ Len(canvas_events) > 0

\* C20: gemini_events is the parse of schedule_report and ics_file holds
\* exactly the events of gemini_events
C20_ReportEventsCalendarAgree ==
    LET parsed == parse_schedule_report(schedule_report, today)
    IN  /\ ~Raised(parsed)
        /\ Len(parsed.val) = Len(gemini_events)
        /\ \A k \in 1..Len(gemini_events) :
              Content(gemini_events[k]) = parsed.val[k]
        /\ Held(ics_file) = Range(gemini_events)

====
